---- MODULE Spec2Model ----
(***************************************************************************)
(* Model of scripts/ai-config-sync.py: the AGENTS.md / CLAUDE.md           *)
(* reconciliation (InstructionSyncer), the legacy .cursorrules migration   *)
(* (RulesSyncer, backup_file) and the MDC conversion pair                  *)
(* (markdown_to_mdc, mdc_to_markdown).                                     *)
(*                                                                         *)
(* A Python str is a sequence of one-character strings; a file is a record *)
(* [kind, content]; a dict is a function whose domain is its key set.      *)
(***************************************************************************)
EXTENDS Integers, Sequences, FiniteSets, TLC

VARIABLES
    agents_md,          \* AGENTS.md: [kind, content]
    claude_md,          \* CLAUDE.md: [kind, content]; kind "link" = symlink to AGENTS.md
    instr_log,          \* the last InstructionSyncer.sync runs, newest last
    cursorrules_legacy, \* .cursorrules: [kind, content]
    cursor_rules,       \* whether the directory .cursor/rules exists
    project_rules,      \* .cursor/rules/project-rules.mdc: [kind, content]
    backup_dir,         \* whether the directory .cursor/backups exists
    backups,            \* .cursor/backups: timestamp -> content of .cursorrules.<timestamp>.bak
    now,                \* datetime.now(), in whole seconds
    pc,                 \* position of the running RulesSyncer.sync
    dry_run,            \* self.dry_run of the running RulesSyncer
    migrating,          \* content read by the running _migrate_legacy_cursorrules
    migrations,         \* live migrations completed so far
    written,            \* every backup file ever written: [ts, content]
    doc,                \* arguments of markdown_to_mdc: [body, description, globs, always_apply]
    mdc,                \* the text markdown_to_mdc returned
    parsed,             \* the pair mdc_to_markdown returned: [markdown, metadata]
    mpc,                \* position of the conversion run
    project_dir,        \* args.project_dir: "dir", "file" or "missing"
    args,               \* the command line: [init, dry_run]
    mcp_json,           \* .mcp.json: [kind, doc]
    claude_json,        \* ~/.claude.json: [kind, doc]
    claude_settings,    \* .claude/settings.json: [kind, doc]
    claude_commands,    \* whether the directory .claude/commands exists
    claude_agents,      \* whether the directory .claude/agents exists
    gitignore,          \* .gitignore: [kind, content]
    readonly,           \* the paths the process may not write to
    rpc,                \* position of main
    syncer,             \* whether main has constructed the ConfigSyncer
    results,            \* what the sub-syncers run so far returned, in order
    warned,             \* the files safe_read_json has warned about
    raised,             \* the exception that ended the run, "" if none
    exit_status,        \* the status the process exited with, -1 while it runs
    before,             \* the files as they were when main started
    ipc,                \* position of the running InstructionSyncer.sync
    seen                \* what it found: [agents_exists, claude_exists]

vars == <<agents_md, claude_md, instr_log, cursorrules_legacy, cursor_rules,
          project_rules, backup_dir, backups, now, pc, dry_run, migrating,
          migrations, written, doc, mdc, parsed, mpc, project_dir, args, mcp_json,
          claude_json, claude_settings, claude_commands, claude_agents, gitignore,
          readonly, rpc, syncer, results, warned, raised, exit_status, before,
          ipc, seen>>

instr_vars == <<agents_md, claude_md, instr_log>>
rules_vars == <<cursorrules_legacy, cursor_rules, project_rules, backup_dir, backups,
                now, pc, dry_run, migrating, migrations, written>>
mdc_vars == <<doc, mdc, parsed, mpc>>
config_vars == <<mcp_json, claude_json, claude_settings>>
run_vars == <<project_dir, args, config_vars, claude_commands, claude_agents, gitignore,
              readonly, rpc, syncer, results, warned, raised, exit_status, before>>
par_vars == <<ipc, seen>>

----------------------------------------------------------------------------
(* Python str operations, as the source uses them. Indices are Python's    *)
(* (0-based, end exclusive) in slice and find.                             *)

Min(S) == CHOOSE x \in S : \A y \in S : x <= y
Max(S) == CHOOSE x \in S : \A y \in S : x >= y

\* the whitespace str.strip() removes, among the characters the model uses
Whitespace == {" ", "\n", "\t", "\r"}

UpperCase == <<"A","B","C","D","E","F","G","H","I","J","K","L","M","N","O","P","Q","R","S","T","U","V","W","X","Y","Z">>
LowerCase == <<"a","b","c","d","e","f","g","h","i","j","k","l","m","n","o","p","q","r","s","t","u","v","w","x","y","z">>

lower_char(c) ==
    IF \E i \in 1..Len(UpperCase) : UpperCase[i] = c
    THEN LowerCase[CHOOSE i \in 1..Len(UpperCase) : UpperCase[i] = c]
    ELSE c

\* s.lower()
lower(s) == [i \in 1..Len(s) |-> lower_char(s[i])]

\* s[a:b] for 0 <= a, b <= len(s)
slice(s, a, b) == IF a >= b THEN <<>> ELSE SubSeq(s, a + 1, b)

\* s.strip()
strip(s) ==
    LET keep == {i \in 1..Len(s) : s[i] \notin Whitespace}
    IN  IF keep = {} THEN <<>> ELSE SubSeq(s, Min(keep), Max(keep))

\* s.strip(ch) for a one-character argument: every leading and trailing ch goes
strip_char(s, ch) ==
    LET keep == {i \in 1..Len(s) : s[i] # ch}
    IN  IF keep = {} THEN <<>> ELSE SubSeq(s, Min(keep), Max(keep))

\* s.startswith(p)
startswith(s, p) == Len(s) >= Len(p) /\ SubSeq(s, 1, Len(p)) = p

\* s.find(p, start): the lowest index >= start where p occurs, or -1
find(s, p, start) ==
    LET hits == {i \in start..(Len(s) - Len(p)) : SubSeq(s, i + 1, i + Len(p)) = p}
    IN  IF hits = {} THEN -1 ELSE Min(hits)

\* ch in s
contains(s, ch) == \E i \in 1..Len(s) : s[i] = ch

\* s.split(ch) for a one-character separator
split(s, ch) ==
    LET seps == {i \in 1..Len(s) : s[i] = ch}
        nth(k) == IF k = 0 THEN 0
                  ELSE IF k > Cardinality(seps) THEN Len(s) + 1
                  ELSE CHOOSE p \in seps : Cardinality({q \in seps : q < p}) = k - 1
    IN  [k \in 1..(Cardinality(seps) + 1) |-> slice(s, nth(k - 1), nth(k) - 1)]

\* len(s.splitlines()): "\n", "\r" and "\r\n" end a line; a last line needs no end
splitlines_len(s) ==
    LET ends == {i \in 1..Len(s) :
                    \/ s[i] = "\n"
                    \/ s[i] = "\r" /\ ~(i < Len(s) /\ s[i + 1] = "\n")}
    IN  Cardinality(ends) + (IF Len(s) > 0 /\ Len(s) \notin ends THEN 1 ELSE 0)

\* what text-mode reading makes of the bytes of a file (universal newlines):
\* "\r\n" and "\r" are read as "\n"
universal_newlines(s) ==
    LET marked == [i \in 1..Len(s) |->
                      IF s[i] # "\r" THEN s[i]
                      ELSE IF i < Len(s) /\ s[i + 1] = "\n" THEN "" ELSE "\n"]
    IN  SelectSeq(marked, LAMBDA c : c # "")

----------------------------------------------------------------------------
(* MDC format conversion                                                   *)

FENCE == <<"-","-","-">>

\* a metadata value: a str or a bool
StrValue(s) == [isBool |-> FALSE, b |-> FALSE, s |-> s]
BoolValue(b) == [isBool |-> TRUE, b |-> b, s |-> <<>>]

\* {} and d[key] = value
EmptyDict == [k \in {} |-> StrValue(<<>>)]
dict_set(d, key, value) ==
    [k \in (DOMAIN d) \cup {key} |-> IF k = key THEN value ELSE d[k]]

\* str(b) for a bool
bool_str(b) == IF b THEN <<"T","r","u","e">> ELSE <<"F","a","l","s","e">>

\* markdown_to_mdc with the globs line written before the description line
markdown_to_mdc_globs_first(content, description, globs, always_apply) ==
    LET f0 == <<"-","-","-","\n">>
        f1 == IF globs # <<>> THEN f0 \o <<"g","l","o","b","s",":"," ">> \o globs \o <<"\n">> ELSE f0
        f2 == IF description # <<>>
              THEN f1 \o <<"d","e","s","c","r","i","p","t","i","o","n",":"," ","\"">> \o description \o <<"\"","\n">>
              ELSE f1
        f3 == f2 \o <<"a","l","w","a","y","s","A","p","p","l","y",":"," ">> \o lower(bool_str(always_apply)) \o <<"\n">>
    IN  f3 \o <<"-","-","-","\n","\n">> \o content

markdown_to_mdc(content, description, globs, always_apply) ==
    LET f0 == <<"-","-","-","\n">>
        f1 == IF description # <<>>
              THEN f0 \o <<"d","e","s","c","r","i","p","t","i","o","n",":"," ","\"">> \o description \o <<"\"","\n">>
              ELSE f0
        f2 == IF globs # <<>> THEN f1 \o <<"g","l","o","b","s",":"," ">> \o globs \o <<"\n">> ELSE f1
        f3 == f2 \o <<"a","l","w","a","y","s","A","p","p","l","y",":"," ">> \o lower(bool_str(always_apply)) \o <<"\n">>
        frontmatter == f3 \o <<"-","-","-","\n","\n">>
    IN  frontmatter \o content

\* lines 182-185 with the Python value left a str
coerce_never(value) == StrValue(value)

\* lines 182-185: "true" / "false" in any case become bools
coerce(value) ==
    IF lower(value) = <<"t","r","u","e">> THEN BoolValue(TRUE)
    ELSE IF lower(value) = <<"f","a","l","s","e">> THEN BoolValue(FALSE)
    ELSE StrValue(value)

\* lines 178-186 for one line of the front matter
parse_line(metadata, line) ==
    IF contains(line, ":")
    THEN LET at == find(line, <<":">>, 0)
             key == strip(slice(line, 0, at))
             value == strip_char(strip_char(strip(slice(line, at + 1, Len(line))), "\""), "'")
         IN  dict_set(metadata, key, coerce(value))
    ELSE metadata

RECURSIVE parse_lines(_, _, _)
parse_lines(lines, i, metadata) ==
    IF i > Len(lines) THEN metadata
    ELSE parse_lines(lines, i + 1, parse_line(metadata, lines[i]))

\* line 168 searching from the start of the text
find_end_from_start(content) == find(content, FENCE, 0)

\* line 168: the end of the front matter
find_end(content) == find(content, FENCE, 3)

mdc_to_markdown(content) ==
    IF ~startswith(content, FENCE)
    THEN [markdown |-> content, metadata |-> EmptyDict]
    ELSE LET end_idx == find_end(content) IN
         IF end_idx = -1
         THEN [markdown |-> content, metadata |-> EmptyDict]
         ELSE LET frontmatter == strip(slice(content, 3, end_idx))
                  markdown == strip(slice(content, end_idx + 3, Len(content)))
              IN  [markdown |-> markdown,
                   metadata |-> parse_lines(split(frontmatter, "\n"), 1, EmptyDict)]

----------------------------------------------------------------------------
(* Files                                                                   *)

Absent == [kind |-> "absent", content |-> <<>>]
File(content) == [kind |-> "file", content |-> content]
\* CLAUDE.md as a symbolic link to AGENTS.md
Link == [kind |-> "link", content |-> <<>>]

----------------------------------------------------------------------------
(* AGENTS.md / CLAUDE.md synchronisation (InstructionSyncer)               *)
(* A pair p is [agents, claude]: the two files of one project directory.   *)

\* Path.exists(), which follows a symbolic link to its target
exists(f, target) == f.kind = "file" \/ (f.kind = "link" /\ target.kind = "file")

\* Path.read_bytes(), through a symbolic link
read(f, target) == IF f.kind = "link" THEN target.content ELSE f.content

\* Path.read_text(), through a symbolic link
read_text(f, target) == universal_newlines(read(f, target))

\* file_hash: None for a missing file, else the digest of the bytes read
\* (the digest stands for the bytes: equal digests iff equal bytes)
file_hash(f, target) ==
    IF ~exists(f, target) THEN [none |-> TRUE, digest |-> <<>>]
    ELSE [none |-> FALSE, digest |-> read(f, target)]

\* the character U+0060, which a TLA+ string cannot hold
BACKTICK == "U+0060"

\* the literal of _create_template
template ==
    <<"#"," ","P","r","o","j","e","c","t"," ","I","n","s","t","r","u","c","t","i","o","n","s",
    " ","f","o","r"," ","A","I"," ","C","o","d","i","n","g"," ","A","s","s","i","s","t","a","n",
    "t","s","\n","\n","#","#"," ","O","v","e","r","v","i","e","w","\n","T","h","i","s"," ","f",
    "i","l","e"," ","p","r","o","v","i","d","e","s"," ","i","n","s","t","r","u","c","t","i","o",
    "n","s"," ","a","n","d"," ","c","o","n","t","e","x","t"," ","f","o","r"," ","A","I"," ","c",
    "o","d","i","n","g"," ","a","s","s","i","s","t","a","n","t","s"," ","(","C","l","a","u","d",
    "e"," ","C","o","d","e",","," ","C","u","r","s","o","r",","," ","e","t","c",".",")",".",
    "\n","I","t"," ","f","o","l","l","o","w","s"," ","t","h","e"," ","A","G","E","N","T","S",
    ".","m","d"," ","s","t","a","n","d","a","r","d",":"," ","h","t","t","p","s",":","/","/","a",
    "g","e","n","t","s",".","m","d","/","\n","\n","#","#"," ","P","r","o","j","e","c","t"," ",
    "C","o","n","t","e","x","t","\n","<","!","-","-"," ","A","d","d"," ","y","o","u","r"," ",
    "p","r","o","j","e","c","t"," ","d","e","s","c","r","i","p","t","i","o","n"," ","h","e","r",
    "e"," ","-","-",">","\n","\n","#","#"," ","C","o","d","i","n","g"," ","S","t","a","n","d",
    "a","r","d","s","\n","-"," ","F","o","l","l","o","w"," ","e","x","i","s","t","i","n","g",
    " ","c","o","d","e"," ","s","t","y","l","e"," ","a","n","d"," ","c","o","n","v","e","n","t",
    "i","o","n","s","\n","-"," ","W","r","i","t","e"," ","c","l","e","a","r",","," ","s","e",
    "l","f","-","d","o","c","u","m","e","n","t","i","n","g"," ","c","o","d","e","\n","-"," ",
    "I","n","c","l","u","d","e"," ","a","p","p","r","o","p","r","i","a","t","e"," ","e","r","r",
    "o","r"," ","h","a","n","d","l","i","n","g","\n","-"," ","A","d","d"," ","t","e","s","t",
    "s"," ","f","o","r"," ","n","e","w"," ","f","u","n","c","t","i","o","n","a","l","i","t","y",
    "\n","\n","#","#"," ","A","r","c","h","i","t","e","c","t","u","r","e","\n","<","!","-","-",
    " ","D","e","s","c","r","i","b","e"," ","y","o","u","r"," ","p","r","o","j","e","c","t","'",
    "s"," ","a","r","c","h","i","t","e","c","t","u","r","e"," ","-","-",">","\n","\n","#","#",
    " ","C","o","m","m","o","n"," ","C","o","m","m","a","n","d","s","\n",BACKTICK,BACKTICK,
    BACKTICK,"b","a","s","h","\n","#"," ","D","e","v","e","l","o","p","m","e","n","t","\n","n",
    "p","m"," ","r","u","n"," ","d","e","v"," "," "," "," "," "," "," "," "," "," ","#"," ","S",
    "t","a","r","t"," ","d","e","v","e","l","o","p","m","e","n","t"," ","s","e","r","v","e","r",
    "\n","n","p","m"," ","r","u","n"," ","b","u","i","l","d"," "," "," "," "," "," "," "," ",
    "#"," ","B","u","i","l","d"," ","f","o","r"," ","p","r","o","d","u","c","t","i","o","n",
    "\n","n","p","m"," ","r","u","n"," ","t","e","s","t"," "," "," "," "," "," "," "," "," ",
    "#"," ","R","u","n"," ","t","e","s","t","s","\n","n","p","m"," ","r","u","n"," ","l","i",
    "n","t"," "," "," "," "," "," "," "," "," ","#"," ","R","u","n"," ","l","i","n","t","e","r",
    "\n",BACKTICK,BACKTICK,BACKTICK,"\n","\n","#","#"," ","F","i","l","e"," ","S","t","r","u",
    "c","t","u","r","e","\n","<","!","-","-"," ","D","e","s","c","r","i","b","e"," ","i","m",
    "p","o","r","t","a","n","t"," ","d","i","r","e","c","t","o","r","i","e","s"," ","a","n","d",
    " ","f","i","l","e","s"," ","-","-",">","\n","\n","#","#"," ","D","e","p","e","n","d","e",
    "n","c","i","e","s","\n","<","!","-","-"," ","L","i","s","t"," ","k","e","y"," ","d","e",
    "p","e","n","d","e","n","c","i","e","s"," ","a","n","d"," ","t","h","e","i","r"," ","p","u",
    "r","p","o","s","e","s"," ","-","-",">","\n","\n","#","#"," ","N","o","t","e","s","\n","<",
    "!","-","-"," ","A","n","y"," ","a","d","d","i","t","i","o","n","a","l"," ","c","o","n","t",
    "e","x","t"," ","f","o","r"," ","t","h","e"," ","A","I"," ","a","s","s","i","s","t","a","n",
    "t"," ","-","-",">","\n">>

\* line 306 without the leading "See "
reference_content_bare == <<"@","A","G","E","N","T","S",".","m","d","\n">>

\* line 306
reference_content == <<"S","e","e"," ","@","A","G","E","N","T","S",".","m","d","\n">>

\* lines 288-289 without the dry_run test
_create_template_always(p, dry) == [p EXCEPT !.agents = File(template)]

_create_template(p, dry) ==
    IF ~dry THEN [p EXCEPT !.agents = File(template)] ELSE p

\* lines 300-309 without the symlink test: write_text follows the link
_create_claude_reference_through_link(p, dry) ==
    IF dry THEN p
    ELSE IF p.claude.kind = "link" THEN [p EXCEPT !.agents = File(reference_content)]
    ELSE [p EXCEPT !.claude = File(reference_content)]

\* is_symlink() and resolve() == agents_md.resolve(): the link kind is that link
_create_claude_reference(p, dry) ==
    IF p.claude.kind = "link" THEN p
    ELSE IF ~dry THEN [p EXCEPT !.claude = File(reference_content)]
    ELSE p

\* line 234 giving AGENTS.md the template when CLAUDE.md is only a reference
copy2_template_for_reference(p) ==
    LET claude_content == lower(strip(read_text(p.claude, p.agents)))
    IN  IF \/ startswith(claude_content, <<"s","e","e"," ","@","a","g","e","n","t","s",".","m","d">>)
           \/ startswith(claude_content, <<"s","e","e"," ","a","g","e","n","t","s",".","m","d">>)
        THEN [p EXCEPT !.agents = File(template)]
        ELSE [p EXCEPT !.agents = File(read(p.claude, p.agents))]

\* shutil.copy2(self.claude_md, self.agents_md)
copy2_claude_to_agents(p) == [p EXCEPT !.agents = File(read(p.claude, p.agents))]

\* lines 233-235 with the reference written before the copy
migrate_reference_first(p, dry) ==
    LET q == _create_claude_reference(p, dry)
    IN  IF ~dry THEN copy2_claude_to_agents(q) ELSE q

\* lines 233-235: copy CLAUDE.md to AGENTS.md, then make CLAUDE.md the reference
migrate(p, dry) ==
    _create_claude_reference(IF ~dry THEN copy2_claude_to_agents(p) ELSE p, dry)

\* what a pass returns: the pair afterwards, the bool returned, the branch of
\* sync / _reconcile_both that returned it and, on divergence, the line counts printed
Result(p, ok, branch, agents_lines, claude_lines) ==
    [pair |-> p, ok |-> ok, branch |-> branch,
     agents_lines |-> agents_lines, claude_lines |-> claude_lines]

\* lines 330-331 with both counts taken from AGENTS.md
diverged_lines_same(p) ==
    [agents |-> splitlines_len(read_text(p.agents, p.agents)),
     claude |-> splitlines_len(read_text(p.agents, p.agents))]

\* lines 330-331
diverged_lines(p) ==
    [agents |-> splitlines_len(read_text(p.agents, p.agents)),
     claude |-> splitlines_len(read_text(p.claude, p.agents))]

\* _reconcile_both resolving a divergence by copying CLAUDE.md onto AGENTS.md
_reconcile_both_take_mirror(p) ==
    LET agents_hash == file_hash(p.agents, p.agents)
        claude_hash == file_hash(p.claude, p.agents)
        claude_content == lower(strip(read_text(p.claude, p.agents)))
    IN  IF \/ startswith(claude_content, <<"s","e","e"," ","@","a","g","e","n","t","s",".","m","d">>)
           \/ startswith(claude_content, <<"s","e","e"," ","a","g","e","n","t","s",".","m","d">>)
        THEN Result(p, TRUE, "InSync", 0, 0)
        ELSE IF agents_hash # claude_hash
        THEN Result([p EXCEPT !.agents = File(read(p.claude, p.agents))],
                    TRUE, "InSync", 0, 0)
        ELSE Result(p, TRUE, "InSync", 0, 0)

\* _reconcile_both with the hashes compared before the reference test
_reconcile_both_hash_first(p) ==
    LET agents_hash == file_hash(p.agents, p.agents)
        claude_hash == file_hash(p.claude, p.agents)
        claude_content == lower(strip(read_text(p.claude, p.agents)))
    IN  IF agents_hash # claude_hash
        THEN Result(p, FALSE, "Diverged", diverged_lines(p).agents, diverged_lines(p).claude)
        ELSE Result(p, TRUE, "InSync", 0, 0)

_reconcile_both(p) ==
    LET agents_hash == file_hash(p.agents, p.agents)
        claude_hash == file_hash(p.claude, p.agents)
        claude_content == lower(strip(read_text(p.claude, p.agents)))
    IN  IF \/ startswith(claude_content, <<"s","e","e"," ","@","a","g","e","n","t","s",".","m","d">>)
           \/ startswith(claude_content, <<"s","e","e"," ","a","g","e","n","t","s",".","m","d">>)
        THEN Result(p, TRUE, "InSync", 0, 0)
        ELSE IF agents_hash # claude_hash
        THEN Result(p, FALSE, "Diverged", diverged_lines(p).agents, diverged_lines(p).claude)
        ELSE Result(p, TRUE, "InSync", 0, 0)

\* sync with case 3 tested as "if agents_exists:" alone
sync_reference_first(p, dry) ==
    LET agents_exists == exists(p.agents, p.agents)
        claude_exists == exists(p.claude, p.agents)
    IN  IF ~agents_exists /\ ~claude_exists
        THEN Result(_create_claude_reference(_create_template(p, dry), dry),
                    TRUE, "Bootstrapped", 0, 0)
        ELSE IF ~agents_exists /\ claude_exists
        THEN Result(migrate(p, dry), TRUE, "Migrated", 0, 0)
        ELSE Result(_create_claude_reference(p, dry), TRUE, "ReferenceCreated", 0, 0)

\* InstructionSyncer.sync
sync(p, dry) ==
    LET agents_exists == exists(p.agents, p.agents)
        claude_exists == exists(p.claude, p.agents)
    IN  IF ~agents_exists /\ ~claude_exists
        THEN Result(_create_claude_reference(_create_template(p, dry), dry),
                    TRUE, "Bootstrapped", 0, 0)
        ELSE IF ~agents_exists /\ claude_exists
        THEN Result(migrate(p, dry), TRUE, "Migrated", 0, 0)
        ELSE IF agents_exists /\ ~claude_exists
        THEN Result(_create_claude_reference(p, dry), TRUE, "ReferenceCreated", 0, 0)
        ELSE IF agents_exists /\ claude_exists
        THEN _reconcile_both(p)
        ELSE Result(p, TRUE, "FellThrough", 0, 0)

\* the instruction files a project directory starts with
InstrContents ==
    { <<"A","\n","B">>, <<"C","\n","D">>, <<"X","\n">>, <<>>, <<"A","\r","\n","B">>, <<"S","e","e"," ","@","A","G","E","N","T","S",".","m","d","\n">>, <<" "," ","S","E","E"," ","A","G","E","N","T","S",".","M","D">>,
      <<"s","e","e"," ","@","a","g","e","n","t","s",".","m","d","\n","A","\n","B">> }

AgentsStates == {Absent} \cup {File(c) : c \in InstrContents}
ClaudeStates == {Absent, Link} \cup {File(c) : c \in InstrContents}

\* how many passes instr_log remembers
LogLen == 2

Pair == [agents |-> agents_md, claude |-> claude_md]

push(log, e) ==
    IF Len(log) < LogLen THEN Append(log, e) ELSE Append(Tail(log), e)

\* one run of InstructionSyncer(project_dir, dry_run=dry).sync()
InstructionSync(dry) ==
    LET r == sync(Pair, dry)
    IN  /\ agents_md' = r.pair.agents
        /\ claude_md' = r.pair.claude
        /\ instr_log' = push(instr_log,
                             [dry |-> dry, ok |-> r.ok, branch |-> r.branch,
                              agents_lines |-> r.agents_lines,
                              claude_lines |-> r.claude_lines,
                              pre |-> Pair, post |-> r.pair])
        /\ UNCHANGED <<rules_vars, mdc_vars, run_vars, par_vars>>

SyncLive == InstructionSync(FALSE)
SyncDryRun == InstructionSync(TRUE)

----------------------------------------------------------------------------
(* Rules synchronisation (RulesSyncer) and backup_file                     *)
(* A tree r is [legacy, cursor_rules, project_rules, backup_dir, backups]. *)

\* clock ticks in one second: "%Y%m%d_%H%M%S" names a backup to the second
TicksPerSecond == 2

\* datetime.now().strftime("%Y%m%d_%H%M%S") at tick t
timestamp(t) == t \div TicksPerSecond

\* lines 130-131 with the backup created but nothing copied into it
backup_file_touch(r, t) ==
    IF r.legacy.kind # "file" THEN r
    ELSE [r EXCEPT !.backup_dir = TRUE,
                   !.backups = dict_set(r.backups, timestamp(t), <<>>)]

\* backup_file(self.cursorrules_legacy, backup_dir) at tick t:
\* ensure_dir(backup_dir), then shutil.copy2 onto <name>.<timestamp>.bak
backup_file(r, t) ==
    IF r.legacy.kind # "file" THEN r
    ELSE [r EXCEPT !.backup_dir = TRUE,
                   !.backups = dict_set(r.backups, timestamp(t), r.legacy.content)]

\* lines 399-403
legacy_to_mdc(content) ==
    markdown_to_mdc(content, <<"M","i","g","r","a","t","e","d"," ","f","r","o","m"," ","l","e","g","a","c","y"," ",".","c","u","r","s","o","r","r","u","l","e","s">>, <<>>, TRUE)

\* lines 408-409: ensure_dir(self.cursor_rules); new_path.write_text(mdc_content)
write_project_rules(r, content) ==
    [r EXCEPT !.cursor_rules = TRUE, !.project_rules = File(legacy_to_mdc(content))]

Tree == [legacy |-> cursorrules_legacy, cursor_rules |-> cursor_rules,
         project_rules |-> project_rules, backup_dir |-> backup_dir,
         backups |-> backups]

SetTree(r) ==
    /\ cursorrules_legacy' = r.legacy
    /\ cursor_rules' = r.cursor_rules
    /\ project_rules' = r.project_rules
    /\ backup_dir' = r.backup_dir
    /\ backups' = r.backups

\* the .cursorrules files a project directory may hold
LegacyContents == { <<"r","u","l","e"," ","t","e","x","t">>, <<"-","-","-","\n","B"," ","\n">>, <<"a","\r","\n","b">> }

\* bounds of the rules model
MaxClock == 3
MaxMigrations == 2

\* migrating: how far the migration of this run got, the bytes .cursorrules held
\* when it began and the text read from it
NoMigration == [step |-> "none", original |-> <<>>, content |-> <<>>]

\* RulesSyncer(project_dir, dry_run=dry).sync() starts: line 370
RulesSyncStart(dry) ==
    /\ pc = "idle"
    /\ migrations < MaxMigrations
    /\ dry_run' = dry
    /\ migrating' = NoMigration
    /\ pc' = IF cursorrules_legacy.kind = "file" THEN "migrate" ELSE "ensure_rules"
    /\ UNCHANGED <<cursorrules_legacy, cursor_rules, project_rules, backup_dir, backups,
                   now, migrations, written, instr_vars, mdc_vars, run_vars, par_vars>>

RulesSyncLive == RulesSyncStart(FALSE)
RulesSyncDryRun == RulesSyncStart(TRUE)

\* _migrate_legacy_cursorrules, lines 396-409: read, convert, write the tagged file
MigrateWrite ==
    /\ pc = "migrate"
    /\ IF dry_run
       THEN /\ pc' = "ensure_rules"
            /\ migrating' = [step |-> "dry", original |-> cursorrules_legacy.content,
                             content |-> universal_newlines(cursorrules_legacy.content)]
            /\ UNCHANGED <<cursorrules_legacy, cursor_rules, project_rules,
                           backup_dir, backups>>
       ELSE /\ pc' = "backup"
            /\ migrating' = [step |-> "written", original |-> cursorrules_legacy.content,
                             content |-> universal_newlines(cursorrules_legacy.content)]
            /\ SetTree(write_project_rules(Tree,
                                           universal_newlines(cursorrules_legacy.content)))
    /\ UNCHANGED <<now, dry_run, migrations, written, instr_vars, mdc_vars, run_vars, par_vars>>

\* _migrate_legacy_cursorrules, lines 412-413: back the legacy file up
MigrateBackup ==
    /\ pc = "backup"
    /\ SetTree(backup_file(Tree, now))
    /\ written' = written \cup
                    {[ts |-> timestamp(now), content |-> cursorrules_legacy.content]}
    /\ migrating' = [migrating EXCEPT !.step = "backed"]
    /\ migrations' = migrations + 1
    /\ pc' = "ensure_rules"
    /\ UNCHANGED <<now, dry_run, instr_vars, mdc_vars, run_vars, par_vars>>

\* sync, lines 374-390: make .cursor/rules, list it, return
EnsureRules ==
    /\ pc = "ensure_rules"
    /\ cursor_rules' = IF ~cursor_rules /\ ~dry_run THEN TRUE ELSE cursor_rules
    /\ pc' = "idle"
    /\ UNCHANGED <<cursorrules_legacy, project_rules, backup_dir, backups, now, dry_run,
                   migrating, migrations, written, instr_vars, mdc_vars, run_vars, par_vars>>

\* the process is killed between two steps of a run
Interrupt ==
    /\ pc # "idle"
    /\ pc' = "idle"
    /\ UNCHANGED <<cursorrules_legacy, cursor_rules, project_rules, backup_dir, backups,
                   now, dry_run, migrating, migrations, written, instr_vars, mdc_vars, run_vars, par_vars>>

\* time passes
Tick ==
    /\ now < MaxClock
    /\ now' = now + 1
    /\ UNCHANGED <<cursorrules_legacy, cursor_rules, project_rules, backup_dir, backups,
                   pc, dry_run, migrating, migrations, written, instr_vars, mdc_vars, run_vars, par_vars>>

\* between runs the user rewrites .cursorrules
EditLegacy ==
    /\ pc = "idle"
    /\ \E c \in LegacyContents :
          /\ cursorrules_legacy # File(c)
          /\ cursorrules_legacy' = File(c)
    /\ UNCHANGED <<cursor_rules, project_rules, backup_dir, backups, now, pc, dry_run,
                   migrating, migrations, written, instr_vars, mdc_vars, run_vars, par_vars>>

----------------------------------------------------------------------------
(* Conversion runs: markdown_to_mdc, then mdc_to_markdown on its output,   *)
(* or mdc_to_markdown on a text as found in a file                         *)

\* pieces the rule texts are made of
BodyTokens == { <<"-","-","-">>, <<"\n">>, <<" ">>, <<"a">>, <<"k",":"," ","v">> }

\* the longest rule text, in pieces
MaxBodyTokens == 3

RECURSIVE flatten(_)
flatten(ts) == IF ts = <<>> THEN <<>> ELSE Head(ts) \o flatten(Tail(ts))

Bodies == {flatten(ts) : ts \in UNION {[1..k -> BodyTokens] : k \in 0..MaxBodyTokens}}

Descriptions == { <<>>, <<"d">>, <<"t","r","u","e">>, <<"\"","q","\"">>, <<"a","-","-","-","b">> }
Globs == { <<>>, <<"*",".","t","s">>, <<"F","a","l","s","e">> }

NoDoc == [body |-> <<>>, description |-> <<>>, globs |-> <<>>, always_apply |-> FALSE]
NoParsed == [markdown |-> <<>>, metadata |-> EmptyDict]

Serialize ==
    /\ mpc = "input"
    /\ mdc' = markdown_to_mdc(doc.body, doc.description, doc.globs, doc.always_apply)
    /\ mpc' = "serialized"
    /\ UNCHANGED <<doc, parsed, instr_vars, rules_vars, run_vars, par_vars>>

Parse ==
    /\ mpc = "serialized"
    /\ parsed' = mdc_to_markdown(mdc)
    /\ mpc' = "parsed"
    /\ UNCHANGED <<doc, mdc, instr_vars, rules_vars, run_vars, par_vars>>

ParseRaw ==
    /\ mpc = "input"
    /\ parsed' = mdc_to_markdown(doc.body)
    /\ mpc' = "rawparsed"
    /\ UNCHANGED <<doc, mdc, instr_vars, rules_vars, run_vars, par_vars>>

----------------------------------------------------------------------------
(* Specifications                                                          *)

NoBackups == [k \in {} |-> <<>>]

----------------------------------------------------------------------------
(* The JSON configuration files. A document is known by the Python types   *)
(* json.loads gives: root is the type of the whole value, and for a dict   *)
(* m maps each member the syncers look at to the type of its value         *)
(* ("projects.*" stands for every entry of "projects").                    *)

Members == {"mcpServers", "projects", "projects.*", "projects.*.mcpServers",
            "permissions", "permissions.allowedTools", "permissions.deny", "hooks"}

Json(root, members) ==
    [root |-> root,
     m |-> [k \in Members |-> IF k \in DOMAIN members THEN members[k] ELSE "absent"]]

EmptyJson == Json("dict", <<>>)

\* a file of configuration: kind is "missing", "unreadable" (the open fails),
\* "not_utf8", "invalid_json" or "json"
Config(kind, data) == [kind |-> kind, doc |-> data]
NoConfig == Config("missing", EmptyJson)

\* obj.get exists, obj.items exists
has_get(type) == type = "dict"
\* len(obj) is defined
sized(type) == type \in {"dict", "list", "str"}
\* key in obj is defined
container(type) == type \in {"dict", "list", "str"}

\* d.get(key, default) on a dict document: the type of what it returns
get(d, key, default) == IF d.m[key] = "absent" THEN default ELSE d.m[key]

Outcome(data, was_warned, exception) ==
    [doc |-> data, warned |-> was_warned, raised |-> exception]

\* safe_read_json: {} for a missing file; {} and a warning for an IOError or a
\* JSONDecodeError; any other exception leaves it; else what json.loads returned
safe_read_json(f) ==
    IF f.kind = "missing" THEN Outcome(EmptyJson, FALSE, "")
    ELSE IF f.kind \in {"unreadable", "invalid_json"} THEN Outcome(EmptyJson, TRUE, "")
    ELSE IF f.kind = "not_utf8" THEN Outcome(EmptyJson, FALSE, "UnicodeDecodeError")
    ELSE Outcome(f.doc, FALSE, "")

\* MCPSyncer.sync, lines 446-448: the exception raised, "" if none
mcp_project(read_result) ==
    LET mcp_config == read_result.doc
    IN  IF read_result.raised # "" THEN read_result.raised
        ELSE IF ~has_get(mcp_config.root) THEN "AttributeError"
        ELSE IF ~sized(get(mcp_config, "mcpServers", mcp_config.root)) THEN "TypeError"
        ELSE ""

\* MCPSyncer.sync, lines 459-471
mcp_user(read_result) ==
    LET user_config == read_result.doc
    IN  IF read_result.raised # "" THEN read_result.raised
        ELSE IF ~has_get(user_config.root) THEN "AttributeError"
        ELSE IF ~has_get(get(user_config, "projects", "dict")) THEN "AttributeError"
        ELSE IF user_config.m["projects.*"] \notin {"absent", "dict"} THEN "AttributeError"
        ELSE IF /\ user_config.m["projects.*"] = "dict"
                /\ ~sized(get(user_config, "projects.*.mcpServers", "dict"))
        THEN "TypeError"
        ELSE IF ~sized(get(user_config, "mcpServers", "dict")) THEN "TypeError"
        ELSE ""

\* MCPSyncer.sync: [ok, raised, warned]; a file that is there is read
mcp_sync(mcp, user) ==
    LET project_read == safe_read_json(mcp)
        user_read == safe_read_json(user)
        project_raised == IF mcp.kind = "missing" THEN "" ELSE mcp_project(project_read)
        user_raised == IF user.kind = "missing" THEN "" ELSE mcp_user(user_read)
    IN  [ok |-> TRUE,
         raised |-> IF project_raised # "" THEN project_raised ELSE user_raised,
         warned |-> {n \in {".mcp.json"} : project_read.warned}
                    \cup {n \in {"~/.claude.json"} :
                             project_raised = "" /\ user_read.warned}]

\* SettingsSyncer.sync, lines 591-603
settings_report(read_result) ==
    LET settings == read_result.doc
        perms == settings.m["permissions"]
    IN  IF read_result.raised # "" THEN read_result.raised
        ELSE IF ~container(settings.root) THEN "TypeError"
        ELSE IF settings.root # "dict" THEN ""
        ELSE IF perms # "absent" /\ ~container(perms) THEN "TypeError"
        ELSE IF /\ perms = "dict"
                /\ \E k \in {"permissions.allowedTools", "permissions.deny"} :
                      settings.m[k] # "absent" /\ ~sized(settings.m[k])
        THEN "TypeError"
        ELSE IF settings.m["hooks"] # "absent" /\ ~sized(settings.m["hooks"])
        THEN "TypeError"
        ELSE ""

\* SettingsSyncer.sync
settings_sync(f) ==
    LET read_result == safe_read_json(f)
    IN  [ok |-> TRUE,
         raised |-> IF f.kind = "missing" THEN "" ELSE settings_report(read_result),
         warned |-> {n \in {".claude/settings.json"} : read_result.warned}]

----------------------------------------------------------------------------
(* One run of main: ConfigSyncer.sync_all or ConfigSyncer.init_project     *)

\* the files and directories of the project that a run may write
FS == [agents |-> agents_md, claude |-> claude_md, legacy |-> cursorrules_legacy,
       cursor_rules |-> cursor_rules, project_rules |-> project_rules,
       backup_dir |-> backup_dir, backups |-> backups,
       claude_commands |-> claude_commands, claude_agents |-> claude_agents,
       gitignore |-> gitignore]

SetFS(fs) ==
    /\ agents_md' = fs.agents
    /\ claude_md' = fs.claude
    /\ cursorrules_legacy' = fs.legacy
    /\ cursor_rules' = fs.cursor_rules
    /\ project_rules' = fs.project_rules
    /\ backup_dir' = fs.backup_dir
    /\ backups' = fs.backups
    /\ claude_commands' = fs.claude_commands
    /\ claude_agents' = fs.claude_agents
    /\ gitignore' = fs.gitignore

\* the directories .cursor and .claude are there when something in them is
dot_cursor(fs) == fs.cursor_rules \/ fs.backup_dir \/ fs.project_rules.kind = "file"
dot_claude(fs, settings) ==
    fs.claude_commands \/ fs.claude_agents \/ settings.kind # "missing"

\* open(path, "w") fails with PermissionError: on a path that may not be written,
\* or on a new path in a project directory that may not be written
write_fails(f, name, ro) ==
    IF f.kind = "absent" THEN "." \in ro ELSE name \in ro

Step(name, ok, branch) == [step |-> name, ok |-> ok, branch |-> branch]

Ran(fs, step, exception) == [fs |-> fs, step |-> step, raised |-> exception]

\* main, lines 780 and 784, without the two tests
valid_project_dir_any(d) == TRUE

\* main, lines 780 and 784: exists() and is_dir()
valid_project_dir(d) == d = "dir"

\* init_project, lines 673-685: the three directories, made when missing
create_dirs(fs, settings, dry, ro) ==
    IF dry THEN Ran(fs, Step("dirs", TRUE, ""), "")
    ELSE IF "." \in ro /\ (~dot_claude(fs, settings) \/ ~dot_cursor(fs))
    THEN Ran(fs, Step("dirs", FALSE, ""), "PermissionError")
    ELSE Ran([fs EXCEPT !.claude_commands = TRUE, !.claude_agents = TRUE,
                        !.cursor_rules = TRUE],
             Step("dirs", TRUE, ""), "")

\* self.instructions.sync(): AGENTS.md is written before CLAUDE.md (lines 226-227
\* and 234-235), and a write that fails raises out of sync
instructions_sync(fs, dry, ro) ==
    LET p == [agents |-> fs.agents, claude |-> fs.claude]
        r == sync(p, dry)
        writes_agents == ~dry /\ r.branch \in {"Bootstrapped", "Migrated"}
        writes_claude == /\ ~dry
                         /\ r.branch \in {"Bootstrapped", "Migrated", "ReferenceCreated"}
                         /\ p.claude.kind # "link"
    IN  IF writes_agents /\ write_fails(p.agents, "AGENTS.md", ro)
        THEN Ran(fs, Step("instructions", FALSE, r.branch), "PermissionError")
        ELSE IF writes_claude /\ write_fails(p.claude, "CLAUDE.md", ro)
        THEN Ran([fs EXCEPT !.agents = r.pair.agents],
                 Step("instructions", FALSE, r.branch), "PermissionError")
        ELSE Ran([fs EXCEPT !.agents = r.pair.agents, !.claude = r.pair.claude],
                 Step("instructions", r.ok, r.branch), "")

\* the part of the files RulesSyncer works on, and that part put back
tree_of(fs) == [legacy |-> fs.legacy, cursor_rules |-> fs.cursor_rules,
                project_rules |-> fs.project_rules, backup_dir |-> fs.backup_dir,
                backups |-> fs.backups]
with_tree(fs, r) == [fs EXCEPT !.cursor_rules = r.cursor_rules,
                               !.project_rules = r.project_rules,
                               !.backup_dir = r.backup_dir,
                               !.backups = r.backups]

\* self.rules.sync() at tick t: the migration of .cursorrules when it is there,
\* then .cursor/rules made when missing; ensure_dir raises when .cursor cannot
\* be made
rules_sync(fs, dry, t, ro) ==
    LET r == tree_of(fs)
        migrates == r.legacy.kind = "file"
        migrated == IF migrates
                    THEN backup_file(write_project_rules(
                                         r, universal_newlines(r.legacy.content)), t)
                    ELSE r
    IN  IF dry THEN Ran(fs, Step("rules", TRUE, ""), "")
        ELSE IF "." \in ro /\ ~dot_cursor(fs)
        THEN Ran(fs, Step("rules", FALSE, ""), "PermissionError")
        ELSE Ran(with_tree(fs, [migrated EXCEPT !.cursor_rules = TRUE]),
                 Step("rules", TRUE, ""), "")

\* lines 699-703
entries_to_add == << <<"\n","#"," ","A","I"," ","A","s","s","i","s","t","a","n","t"," ","l","o","c","a","l"," ","c","o","n","f","i","g","s"," ","(","n","o","t"," ","t","r","a","c","k","e","d",")">>,
                     <<".","c","l","a","u","d","e","/","s","e","t","t","i","n","g","s",".","l","o","c","a","l",".","j","s","o","n">>,
                     <<".","c","l","a","u","d","e","/","b","a","c","k","u","p","s","/">> >>

\* "\n".join(entries)
RECURSIVE join(_)
join(entries) ==
    IF entries = <<>> THEN <<>>
    ELSE IF Len(entries) = 1 THEN entries[1]
    ELSE entries[1] \o <<"\n">> \o join(Tail(entries))

\* what _create_gitignore_entries appends to .gitignore
gitignore_addition(g) ==
    LET existing_content == IF g.kind = "file" THEN universal_newlines(g.content)
                            ELSE <<>>
        new_entries == SelectSeq(entries_to_add,
                                 LAMBDA entry : find(existing_content, entry, 0) = -1)
    IN  IF new_entries = <<>> THEN <<>>
        ELSE <<"\n">> \o join(new_entries) \o <<"\n">>

\* _create_gitignore_entries appending in a dry run too
_create_gitignore_entries_always(fs, dry, ro) ==
    IF gitignore_addition(fs.gitignore) = <<>>
    THEN Ran(fs, Step("gitignore", TRUE, ""), "")
    ELSE IF write_fails(fs.gitignore, ".gitignore", ro)
    THEN Ran(fs, Step("gitignore", FALSE, ""), "PermissionError")
    ELSE Ran([fs EXCEPT !.gitignore =
                           File(fs.gitignore.content \o gitignore_addition(fs.gitignore))],
             Step("gitignore", TRUE, ""), "")

\* _create_gitignore_entries
_create_gitignore_entries(fs, dry, ro) ==
    IF gitignore_addition(fs.gitignore) = <<>> \/ dry
    THEN Ran(fs, Step("gitignore", TRUE, ""), "")
    ELSE IF write_fails(fs.gitignore, ".gitignore", ro)
    THEN Ran(fs, Step("gitignore", FALSE, ""), "PermissionError")
    ELSE Ran([fs EXCEPT !.gitignore =
                           File(fs.gitignore.content \o gitignore_addition(fs.gitignore))],
             Step("gitignore", TRUE, ""), "")

\* sync_all, lines 643-650: success = step.sync() and success, from True
success_of(rs) == \A i \in 1..Len(rs) : rs[i].ok

\* an exception nothing catches leaves main: traceback, exit status 1
Raise(exception) ==
    /\ raised' = exception
    /\ exit_status' = 1
    /\ rpc' = "exited"

\* a step of the run that returned: ran is what it did, then comes next
Returned(ran, next, sub_syncer) ==
    /\ SetFS(ran.fs)
    /\ IF ran.raised # ""
       THEN Raise(ran.raised) /\ UNCHANGED results
       ELSE /\ rpc' = next
            /\ results' = IF sub_syncer THEN Append(results, ran.step) ELSE results
            /\ UNCHANGED <<raised, exit_status>>

run_unchanged == <<instr_log, now, pc, dry_run, migrating, migrations, written,
                   mdc_vars, project_dir, args, config_vars, readonly, before,
                   par_vars>>

\* main, lines 780-798: the directory is validated, then the ConfigSyncer made
Main ==
    /\ rpc = "main"
    /\ IF valid_project_dir(project_dir)
       THEN /\ syncer' = TRUE
            /\ rpc' = IF args.init THEN "init_project" ELSE "instructions"
            /\ UNCHANGED <<raised, exit_status>>
       ELSE /\ exit_status' = 1
            /\ rpc' = "exited"
            /\ UNCHANGED <<syncer, raised>>
    /\ SetFS(FS)
    /\ UNCHANGED <<results, warned, run_unchanged>>

\* init_project, lines 673-685
CreateDirs ==
    /\ rpc = "init_project"
    /\ Returned(create_dirs(FS, claude_settings, args.dry_run, readonly),
                "instructions", FALSE)
    /\ UNCHANGED <<syncer, warned, run_unchanged>>

\* sync_all, line 646
InstructionsStep ==
    /\ rpc = "instructions"
    /\ Returned(instructions_sync(FS, args.dry_run, readonly), "rules", TRUE)
    /\ UNCHANGED <<syncer, warned, run_unchanged>>

\* sync_all, line 647
RulesStep ==
    /\ rpc = "rules"
    /\ Returned(rules_sync(FS, args.dry_run, now, readonly), "mcp", TRUE)
    /\ UNCHANGED <<syncer, warned, run_unchanged>>

\* sync_all, line 648
McpStep ==
    /\ rpc = "mcp"
    /\ LET r == mcp_sync(mcp_json, claude_json)
       IN  /\ Returned(Ran(FS, Step("mcp", r.ok, ""), r.raised), "commands", TRUE)
           /\ warned' = warned \cup r.warned
    /\ UNCHANGED <<syncer, run_unchanged>>

\* sync_all, line 649: CommandsSyncer.sync lists two directories, returns True
CommandsStep ==
    /\ rpc = "commands"
    /\ Returned(Ran(FS, Step("commands", TRUE, ""), ""), "settings", TRUE)
    /\ UNCHANGED <<syncer, warned, run_unchanged>>

\* sync_all, line 650, and the return to init_project or to main
SettingsStep ==
    /\ rpc = "settings"
    /\ LET r == settings_sync(claude_settings)
       IN  /\ Returned(Ran(FS, Step("settings", r.ok, ""), r.raised),
                       IF args.init THEN "gitignore" ELSE "exit", TRUE)
           /\ warned' = warned \cup r.warned
    /\ UNCHANGED <<syncer, run_unchanged>>

\* init_project, line 691
GitignoreStep ==
    /\ rpc = "gitignore"
    /\ Returned(_create_gitignore_entries(FS, args.dry_run, readonly), "exit", FALSE)
    /\ UNCHANGED <<syncer, warned, run_unchanged>>

\* main, line 800
Exit ==
    /\ rpc = "exit"
    /\ exit_status' = IF success_of(results) THEN 0 ELSE 1
    /\ rpc' = "exited"
    /\ SetFS(FS)
    /\ UNCHANGED <<syncer, results, warned, raised, run_unchanged>>

\* the configuration files of the runs
McpFiles == { NoConfig, Config("unreadable", EmptyJson), Config("invalid_json", EmptyJson),
              Config("not_utf8", EmptyJson),
              Config("json", Json("dict", "mcpServers" :> "dict")),
              Config("json", Json("list", <<>>)) }
UserFiles == { NoConfig, Config("invalid_json", EmptyJson),
               Config("json", Json("dict", ("projects" :> "dict") @@ ("projects.*" :> "dict")
                                           @@ ("projects.*.mcpServers" :> "dict"))),
               Config("json", Json("dict", "projects" :> "list")) }
SettingsFiles == { NoConfig, Config("invalid_json", EmptyJson),
                   Config("json", Json("dict", ("permissions" :> "dict")
                                               @@ ("permissions.allowedTools" :> "list")
                                               @@ ("hooks" :> "dict"))),
                   Config("json", Json("dict", "permissions" :> "int")) }

\* the instruction pairs of the runs: nothing, a mirror alone, a diverged pair,
\* a pair in sync
RunPairs == { [agents |-> Absent, claude |-> Absent],
              [agents |-> Absent, claude |-> File(<<"C","\n","D">>)],
              [agents |-> File(<<"A","\n","B">>), claude |-> File(<<"C","\n","D">>)],
              [agents |-> File(<<"A","\n","B">>), claude |-> File(<<"S","e","e"," ","@","A","G","E","N","T","S",".","m","d","\n">>)] }

ParIdle == ipc = "idle" /\ seen = [agents_exists |-> FALSE, claude_exists |-> FALSE]

RunIdle ==
    /\ ParIdle
    /\ project_dir = "dir"
    /\ args = [init |-> FALSE, dry_run |-> FALSE]
    /\ mcp_json = NoConfig
    /\ claude_json = NoConfig
    /\ claude_settings = NoConfig
    /\ claude_commands = FALSE
    /\ claude_agents = FALSE
    /\ gitignore = Absent
    /\ readonly = {}
    /\ rpc = "idle"
    /\ syncer = FALSE
    /\ results = <<>>
    /\ warned = {}
    /\ raised = ""
    /\ exit_status = -1
    /\ before = <<>>

InstrIdle == agents_md = Absent /\ claude_md = Absent /\ instr_log = <<>>

RulesIdle ==
    /\ cursorrules_legacy = Absent
    /\ cursor_rules = FALSE
    /\ project_rules = Absent
    /\ backup_dir = FALSE
    /\ backups = NoBackups
    /\ now = 0
    /\ pc = "idle"
    /\ dry_run = FALSE
    /\ migrating = NoMigration
    /\ migrations = 0
    /\ written = {}

MdcIdle == doc = NoDoc /\ mdc = <<>> /\ parsed = NoParsed /\ mpc = "idle"

\* InstructionSyncer on every state of the pair
InitInstr ==
    /\ agents_md \in AgentsStates
    /\ claude_md \in ClaudeStates
    /\ instr_log = <<>>
    /\ RulesIdle
    /\ MdcIdle
    /\ RunIdle

NextInstr == SyncLive \/ SyncDryRun

SpecInstr == InitInstr /\ [][NextInstr]_vars

\* RulesSyncer on a project with or without .cursorrules and .cursor/rules
InitRules ==
    /\ cursorrules_legacy \in {Absent} \cup {File(c) : c \in LegacyContents}
    /\ cursor_rules \in BOOLEAN
    /\ project_rules = Absent
    /\ backup_dir = FALSE
    /\ backups = NoBackups
    /\ now = 0
    /\ pc = "idle"
    /\ dry_run = FALSE
    /\ migrating = NoMigration
    /\ migrations = 0
    /\ written = {}
    /\ InstrIdle
    /\ RunIdle
    /\ MdcIdle

NextRules ==
    \/ RulesSyncLive
    \/ RulesSyncDryRun
    \/ MigrateWrite
    \/ MigrateBackup
    \/ EnsureRules
    \/ Interrupt
    \/ Tick
    \/ EditLegacy

SpecRules == InitRules /\ [][NextRules]_vars

\* the conversion pair on every rule document
InitMdc ==
    /\ doc \in [body : Bodies, description : Descriptions, globs : Globs,
                always_apply : BOOLEAN]
    /\ mdc = <<>>
    /\ parsed = NoParsed
    /\ mpc = "input"
    /\ InstrIdle
    /\ RulesIdle
    /\ RunIdle

NextMdc == Serialize \/ Parse \/ ParseRaw

SpecMdc == InitMdc /\ [][NextMdc]_vars

\* main on a project directory, on a file, or on a path that is not there
InitRun ==
    /\ project_dir \in {"dir", "file", "missing"}
    /\ args \in [init : BOOLEAN, dry_run : BOOLEAN]
    /\ \E p \in RunPairs : agents_md = p.agents /\ claude_md = p.claude
    /\ cursorrules_legacy \in {Absent, File(<<"r","u","l","e"," ","t","e","x","t">>)}
    /\ gitignore \in {Absent, File(<<".","c","l","a","u","d","e","/","s","e","t","t","i","n","g","s",".","l","o","c","a","l",".","j","s","o","n","\n">>)}
    /\ mcp_json \in McpFiles
    /\ claude_json \in UserFiles
    /\ claude_settings \in SettingsFiles
    /\ readonly \in {{}, {"CLAUDE.md"}, {"."}}
    /\ project_dir # "dir" =>
          /\ agents_md = Absent /\ claude_md = Absent /\ cursorrules_legacy = Absent
          /\ gitignore = Absent /\ mcp_json = NoConfig /\ claude_settings = NoConfig
          /\ readonly = {}
    /\ instr_log = <<>>
    /\ cursor_rules = FALSE
    /\ project_rules = Absent
    /\ backup_dir = FALSE
    /\ backups = NoBackups
    /\ now = 0
    /\ pc = "idle"
    /\ dry_run = FALSE
    /\ migrating = NoMigration
    /\ migrations = 0
    /\ written = {}
    /\ claude_commands = FALSE
    /\ claude_agents = FALSE
    /\ rpc = "main"
    /\ syncer = FALSE
    /\ results = <<>>
    /\ warned = {}
    /\ raised = ""
    /\ exit_status = -1
    /\ before = FS
    /\ MdcIdle
    /\ ParIdle

NextRun ==
    \/ Main
    \/ CreateDirs
    \/ InstructionsStep
    \/ RulesStep
    \/ McpStep
    \/ CommandsStep
    \/ SettingsStep
    \/ GitignoreStep
    \/ Exit

SpecRun == InitRun /\ [][NextRun]_vars

----------------------------------------------------------------------------
(* InstructionSyncer.sync and RulesSyncer.sync of one project, each run    *)
(* file operation by file operation, the two in any interleaving           *)

\* the files the two syncers name, as fields of FS
agents_path == "agents"
claude_path == "claude"
legacy_path == "legacy"

\* line 405 naming AGENTS.md
new_path_agents == "agents"

\* line 405: self.cursor_rules / "project-rules.mdc"
new_path == "project_rules"

pair_of(fs) == [agents |-> fs[agents_path], claude |-> fs[claude_path]]

par_unchanged == <<instr_log, now, dry_run, migrations, written, mdc_vars, project_dir,
                   args, config_vars, readonly, rpc, syncer, warned, raised,
                   exit_status, before>>

\* sync, lines 216-217 and the four tests: what exists decides the case
ParInstrStart ==
    /\ ipc = "start"
    /\ LET agents_exists == exists(FS[agents_path], FS[agents_path])
           claude_exists == exists(FS[claude_path], FS[agents_path])
       IN  /\ seen' = [agents_exists |-> agents_exists, claude_exists |-> claude_exists]
           /\ ipc' = IF ~agents_exists /\ ~claude_exists THEN "template"
                     ELSE IF ~agents_exists /\ claude_exists THEN "copy"
                     ELSE IF agents_exists /\ ~claude_exists THEN "reference"
                     ELSE "reconcile"
    /\ SetFS(FS)
    /\ UNCHANGED <<pc, migrating, results, par_unchanged>>

\* case 1, line 226: self._create_template()
ParTemplate ==
    /\ ipc = "template"
    /\ SetFS([FS EXCEPT ![agents_path] =
                 _create_template(pair_of(FS), args.dry_run).agents])
    /\ ipc' = "reference"
    /\ UNCHANGED <<pc, migrating, results, seen, par_unchanged>>

\* case 2, lines 233-234: shutil.copy2(self.claude_md, self.agents_md)
ParCopy ==
    /\ ipc = "copy"
    /\ SetFS([FS EXCEPT ![agents_path] =
                 IF args.dry_run THEN @ ELSE copy2_claude_to_agents(pair_of(FS)).agents])
    /\ ipc' = "reference"
    /\ UNCHANGED <<pc, migrating, results, seen, par_unchanged>>

\* cases 1 to 3: self._create_claude_reference(), return True
ParReference ==
    /\ ipc = "reference"
    /\ SetFS([FS EXCEPT ![claude_path] =
                 _create_claude_reference(pair_of(FS), args.dry_run).claude])
    /\ results' = Append(results,
                         Step("instructions", TRUE,
                              IF seen.agents_exists THEN "ReferenceCreated"
                              ELSE IF seen.claude_exists THEN "Migrated"
                              ELSE "Bootstrapped"))
    /\ ipc' = "done"
    /\ UNCHANGED <<pc, migrating, seen, par_unchanged>>

\* case 4: return self._reconcile_both()
ParReconcile ==
    /\ ipc = "reconcile"
    /\ LET r == _reconcile_both(pair_of(FS))
       IN  results' = Append(results, Step("instructions", r.ok, r.branch))
    /\ SetFS(FS)
    /\ ipc' = "done"
    /\ UNCHANGED <<pc, migrating, seen, par_unchanged>>

\* RulesSyncer.sync, line 370
ParRulesStart ==
    /\ pc = "start"
    /\ pc' = IF FS[legacy_path].kind = "file" THEN "migrate" ELSE "ensure_rules"
    /\ SetFS(FS)
    /\ UNCHANGED <<ipc, migrating, results, seen, par_unchanged>>

\* _migrate_legacy_cursorrules, lines 396-409
ParMigrateWrite ==
    /\ pc = "migrate"
    /\ LET content == universal_newlines(FS[legacy_path].content)
       IN  /\ migrating' = [step |-> IF args.dry_run THEN "dry" ELSE "written",
                            original |-> FS[legacy_path].content,
                            content |-> content]
           /\ IF args.dry_run
              THEN SetFS(FS) /\ pc' = "ensure_rules"
              ELSE /\ SetFS([FS EXCEPT !.cursor_rules = TRUE,
                                       ![new_path] = File(legacy_to_mdc(content))])
                   /\ pc' = "backup"
    /\ UNCHANGED <<ipc, results, seen, par_unchanged>>

\* _migrate_legacy_cursorrules, lines 412-413
ParMigrateBackup ==
    /\ pc = "backup"
    /\ SetFS(with_tree(FS, backup_file(tree_of(FS), now)))
    /\ migrating' = [migrating EXCEPT !.step = "backed"]
    /\ pc' = "ensure_rules"
    /\ UNCHANGED <<ipc, results, seen, par_unchanged>>

\* RulesSyncer.sync, lines 374-390
ParEnsureRules ==
    /\ pc = "ensure_rules"
    /\ SetFS([FS EXCEPT !.cursor_rules = IF args.dry_run THEN @ ELSE TRUE])
    /\ results' = Append(results, Step("rules", TRUE, ""))
    /\ pc' = "done"
    /\ UNCHANGED <<ipc, migrating, seen, par_unchanged>>

\* the two syncers about to run on a project
InitPar ==
    /\ project_dir = "dir"
    /\ args \in [init : {FALSE}, dry_run : BOOLEAN]
    /\ \E p \in RunPairs \cup {[agents |-> Absent, claude |-> Link]} :
          agents_md = p.agents /\ claude_md = p.claude
    /\ cursorrules_legacy \in {Absent} \cup {File(c) : c \in LegacyContents}
    /\ cursor_rules \in BOOLEAN
    /\ project_rules = Absent
    /\ backup_dir = FALSE
    /\ backups = NoBackups
    /\ now = 0
    /\ pc = "start"
    /\ ipc = "start"
    /\ seen = [agents_exists |-> FALSE, claude_exists |-> FALSE]
    /\ dry_run = FALSE
    /\ migrating = NoMigration
    /\ migrations = 0
    /\ written = {}
    /\ instr_log = <<>>
    /\ mcp_json = NoConfig
    /\ claude_json = NoConfig
    /\ claude_settings = NoConfig
    /\ claude_commands = FALSE
    /\ claude_agents = FALSE
    /\ gitignore = Absent
    /\ readonly = {}
    /\ rpc = "idle"
    /\ syncer = TRUE
    /\ results = <<>>
    /\ warned = {}
    /\ raised = ""
    /\ exit_status = -1
    /\ before = FS
    /\ MdcIdle

NextPar ==
    \/ ParInstrStart
    \/ ParTemplate
    \/ ParCopy
    \/ ParReference
    \/ ParReconcile
    \/ ParRulesStart
    \/ ParMigrateWrite
    \/ ParMigrateBackup
    \/ ParEnsureRules
    \/ Tick

SpecPar == InitPar /\ [][NextPar]_vars

----------------------------------------------------------------------------
(* Properties of InstructionSyncer.sync, under SpecInstr                   *)

\* the text is the reference to AGENTS.md, in any case, after trimming
RefersToAgents(text) ==
    \/ startswith(lower(strip(text)), <<"s","e","e"," ","@","a","g","e","n","t","s",".","m","d">>)
    \/ startswith(lower(strip(text)), <<"s","e","e"," ","a","g","e","n","t","s",".","m","d">>)

\* both files are there, CLAUDE.md is no reference and the contents differ
DivergedPair(p) ==
    /\ p.agents.kind = "file"
    /\ p.claude.kind = "file"
    /\ ~RefersToAgents(p.claude.content)
    /\ p.agents.content # p.claude.content

\* the last two logged passes are live and the second starts where the first ended
TwoLiveRuns ==
    /\ Len(instr_log) >= 2
    /\ ~instr_log[Len(instr_log) - 1].dry
    /\ ~instr_log[Len(instr_log)].dry
    /\ instr_log[Len(instr_log)].pre = instr_log[Len(instr_log) - 1].post

\* C1 as stated: the second of two successive live passes always ends InSync
\* (success) and changes neither file.
C1_SecondRunInSync ==
    TwoLiveRuns =>
        LET second == instr_log[Len(instr_log)]
        IN  second.branch = "InSync" /\ second.ok /\ second.post = second.pre

\* C1, amended: the second of two successive live passes changes neither file;
\* it ends InSync (success) unless the first pass started from a diverged pair,
\* and then both passes end Diverged (failure).
C1_SecondRunStable ==
    TwoLiveRuns =>
        LET first == instr_log[Len(instr_log) - 1]
            second == instr_log[Len(instr_log)]
        IN  /\ second.post = second.pre
            /\ IF DivergedPair(first.pre)
               THEN /\ first.branch = "Diverged" /\ ~first.ok
                    /\ second.branch = "Diverged" /\ ~second.ok
               ELSE second.branch = "InSync" /\ second.ok

C1_Witness ==
    /\ TwoLiveRuns
    /\ instr_log[Len(instr_log) - 1].branch = "Migrated"
    /\ instr_log[Len(instr_log)].branch = "InSync"

\* C2: a dry-run pass takes the branch and returns the bool the live pass on the
\* same pair takes and returns, and leaves both files as they were.
C2_DryRunPurity ==
    \A i \in 1..Len(instr_log) :
        instr_log[i].dry =>
            /\ instr_log[i].post = instr_log[i].pre
            /\ instr_log[i].branch = sync(instr_log[i].pre, FALSE).branch
            /\ instr_log[i].ok = sync(instr_log[i].pre, FALSE).ok

C2_Witness ==
    \E i \in 1..Len(instr_log) :
        /\ instr_log[i].dry
        /\ instr_log[i].branch = "Bootstrapped"
        /\ sync(instr_log[i].pre, FALSE).pair # instr_log[i].pre

\* C3: a live pass on a pair with CLAUDE.md only leaves AGENTS.md holding what
\* CLAUDE.md held, CLAUDE.md holding the reference, and ends Migrated (success).
C3_MigrationPreservesContent ==
    \A i \in 1..Len(instr_log) :
        (/\ ~instr_log[i].dry
         /\ instr_log[i].pre.agents.kind = "absent"
         /\ instr_log[i].pre.claude.kind = "file") =>
            /\ instr_log[i].post.agents = File(instr_log[i].pre.claude.content)
            /\ instr_log[i].post.claude = File(<<"S","e","e"," ","@","A","G","E","N","T","S",".","m","d","\n">>)
            /\ instr_log[i].branch = "Migrated"
            /\ instr_log[i].ok

C3_Witness ==
    \E i \in 1..Len(instr_log) :
        /\ ~instr_log[i].dry
        /\ instr_log[i].pre.agents.kind = "absent"
        /\ instr_log[i].pre.claude = File(<<"A","\n","B">>)
        /\ instr_log[i].post.agents = File(<<"A","\n","B">>)

\* len(text.splitlines()) of the texts of InstrContents, as Python gives it
KnownLines(text) ==
    CASE text = <<"A","\n","B">> -> 2
      [] text = <<"C","\n","D">> -> 2
      [] text = <<"X","\n">> -> 1
      [] text = <<>> -> 0
      [] text = <<"A","\r","\n","B">> -> 2
      [] text = <<"S","e","e"," ","@","A","G","E","N","T","S",".","m","d","\n">> -> 1
      [] text = <<" "," ","S","E","E"," ","A","G","E","N","T","S",".","M","D">> -> 1
      [] text = <<"s","e","e"," ","@","a","g","e","n","t","s",".","m","d","\n","A","\n","B">> -> 3
      [] OTHER -> -1

\* C4: a pass (live or dry-run) on a diverged pair ends Diverged (failure),
\* reports each file's line count and leaves both files unchanged.
C4_DivergenceNeverMutates ==
    \A i \in 1..Len(instr_log) :
        DivergedPair(instr_log[i].pre) =>
            /\ instr_log[i].branch = "Diverged"
            /\ ~instr_log[i].ok
            /\ instr_log[i].post = instr_log[i].pre
            /\ instr_log[i].agents_lines = KnownLines(instr_log[i].pre.agents.content)
            /\ instr_log[i].claude_lines = KnownLines(instr_log[i].pre.claude.content)

C4_Witness ==
    \E i \in 1..Len(instr_log) :
        /\ instr_log[i].pre = [agents |-> File(<<"A","\n","B">>), claude |-> File(<<"C","\n","D">>)]
        /\ instr_log[i].branch = "Diverged"
        /\ instr_log[i].agents_lines = 2
        /\ instr_log[i].claude_lines = 2
        /\ instr_log[i].post = instr_log[i].pre

----------------------------------------------------------------------------
(* Properties of the legacy .cursorrules migration, under SpecRules        *)

\* the tagged file the migration of a .cursorrules holding text is to leave
TaggedRules(text) ==
    <<"-","-","-","\n","d","e","s","c","r","i","p","t","i","o","n",":"," ","\"","M","i","g","r","a","t","e","d"," ","f","r","o","m"," ","l","e","g","a","c","y"," ",".","c","u","r","s","o","r","r","u","l","e","s","\"","\n","a","l","w","a","y","s","A","p","p","l","y",":"," ","t","r","u","e","\n","-","-","-","\n","\n">>
        \o text

\* a backup file holds text
BackedUp(text) == \E ts \in DOMAIN backups : backups[ts] = text

\* the text Python reads from a .cursorrules of LegacyContents
KnownText(bytes) == IF bytes = <<"a","\r","\n","b">> THEN <<"a","\n","b">> ELSE bytes

C6_LegacyMovedAway ==
    (migrating.step = "backed" /\ pc = "ensure_rules") =>
        cursorrules_legacy.kind = "absent"

\* C7 as stated: every backup file ever written is still there with the content
\* it was written with.
C7_BackupsAdditive ==
    \A w \in written :
        /\ w.ts \in DOMAIN backups
        /\ backups[w.ts] = w.content

----------------------------------------------------------------------------
(* Properties of the conversion pair, under SpecMdc                        *)

\* C8: with description "d", globs "*.ts" and alwaysApply True, parsing the
\* serialized text gives the body trimmed and exactly that metadata, alwaysApply
\* as a bool.
C8_ReferenceRoundTrip ==
    (/\ mpc = "parsed"
     /\ doc.description = <<"d">>
     /\ doc.globs = <<"*",".","t","s">>
     /\ doc.always_apply) =>
        /\ parsed.markdown = strip(doc.body)
        /\ DOMAIN parsed.metadata = { <<"d","e","s","c","r","i","p","t","i","o","n">>, <<"g","l","o","b","s">>, <<"a","l","w","a","y","s","A","p","p","l","y">> }
        /\ parsed.metadata[<<"d","e","s","c","r","i","p","t","i","o","n">>] = StrValue(<<"d">>)
        /\ parsed.metadata[<<"g","l","o","b","s">>] = StrValue(<<"*",".","t","s">>)
        /\ parsed.metadata[<<"a","l","w","a","y","s","A","p","p","l","y">>] = BoolValue(TRUE)

C8_Witness ==
    /\ mpc = "parsed"
    /\ doc = [body |-> <<"-","-","-","\n","k",":"," ","v">>, description |-> <<"d">>, globs |-> <<"*",".","t","s">>,
              always_apply |-> TRUE]
    /\ parsed.markdown = <<"-","-","-","\n","k",":"," ","v">>

\* the metadata of a rule document: description and globs when not empty, as
\* strs, and alwaysApply as a bool
DocMetadata(d) ==
    LET m0 == dict_set(EmptyDict, <<"a","l","w","a","y","s","A","p","p","l","y">>, BoolValue(d.always_apply))
        m1 == IF d.description # <<>>
              THEN dict_set(m0, <<"d","e","s","c","r","i","p","t","i","o","n">>, StrValue(d.description)) ELSE m0
    IN  IF d.globs # <<>> THEN dict_set(m1, <<"g","l","o","b","s">>, StrValue(d.globs)) ELSE m1

\* C9 as stated: parsing the serialized text of any rule document gives its body
\* trimmed and its metadata, strs as strs and bools as bools.
C9_RoundTrip ==
    mpc = "parsed" =>
        /\ parsed.markdown = strip(doc.body)
        /\ parsed.metadata = DocMetadata(doc)

\* the text does not begin with the fence
Unfenced(text) == Len(text) < Len(FENCE) \/ SubSeq(text, 1, Len(FENCE)) # FENCE

\* no fence begins after the first three characters of the text
Unclosed(text) ==
    \A i \in (Len(FENCE) + 1)..(Len(text) - Len(FENCE) + 1) :
        SubSeq(text, i, i + Len(FENCE) - 1) # FENCE

\* C10: a text that does not begin with the fence, or has no fence after the
\* opening one, comes back unchanged as the body, with empty metadata.
C10_FallbackSafety ==
    (mpc = "rawparsed" /\ (Unfenced(doc.body) \/ Unclosed(doc.body))) =>
        parsed = [markdown |-> doc.body, metadata |-> EmptyDict]

C10_Witness ==
    /\ mpc = "rawparsed"
    /\ doc.body = <<"-","-","-","\n","k",":"," ","v">>
    /\ ~Unfenced(doc.body)
    /\ Unclosed(doc.body)
    /\ parsed.markdown = doc.body

----------------------------------------------------------------------------
(* The decision procedure of InstructionSyncer.sync, under SpecInstr       *)

\* the file is there for Path.exists(): a regular file, or a link whose target is
AgentsPresent(p) == p.agents.kind = "file"
ClaudePresent(p) ==
    p.claude.kind = "file" \/ (p.claude.kind = "link" /\ p.agents.kind = "file")

\* what C11 says of one pass e, the mirror of a bootstrapped pair ending as stub
Decision(e, stub) ==
    /\ e.branch \in {"Bootstrapped", "Migrated", "ReferenceCreated", "InSync", "Diverged"}
    /\ (~AgentsPresent(e.pre) /\ ~ClaudePresent(e.pre)) =>
          /\ e.branch = "Bootstrapped" /\ e.ok
          /\ ~e.dry => (e.post.agents = File(template) /\ e.post.claude = stub)
    /\ (~AgentsPresent(e.pre) /\ ClaudePresent(e.pre)) =>
          e.branch = "Migrated" /\ e.ok
    /\ (AgentsPresent(e.pre) /\ ~ClaudePresent(e.pre)) =>
          /\ e.branch = "ReferenceCreated" /\ e.ok
          /\ ~e.dry => (/\ e.post.agents = e.pre.agents
                        /\ e.post.claude = File(<<"S","e","e"," ","@","A","G","E","N","T","S",".","m","d","\n">>))
    /\ (AgentsPresent(e.pre) /\ ClaudePresent(e.pre)) =>
          /\ e.branch \in {"InSync", "Diverged"}
          /\ e.ok = (e.branch = "InSync")

\* C11 as stated: the branch of a pass follows from which files exist, every state
\* has a branch, and a pass on a pair with neither file leaves the template in
\* AGENTS.md and the reference in CLAUDE.md.
C11_DecisionProcedure ==
    \A i \in 1..Len(instr_log) :
        Decision(instr_log[i], File(<<"S","e","e"," ","@","A","G","E","N","T","S",".","m","d","\n">>))

\* C11, amended: as C11, but a CLAUDE.md that is a symbolic link to the missing
\* AGENTS.md is left as that link by the bootstrap instead of receiving the
\* reference.
C11_DecisionProcedureLink ==
    \A i \in 1..Len(instr_log) :
        Decision(instr_log[i],
                 IF instr_log[i].pre.claude.kind = "link" THEN Link
                 ELSE File(<<"S","e","e"," ","@","A","G","E","N","T","S",".","m","d","\n">>))

C11_Witness ==
    \E i \in 1..Len(instr_log) :
        /\ ~instr_log[i].dry
        /\ instr_log[i].pre = [agents |-> Absent, claude |-> Absent]
        /\ instr_log[i].branch = "Bootstrapped"
        /\ instr_log[i].post = [agents |-> File(template),
                                claude |-> File(<<"S","e","e"," ","@","A","G","E","N","T","S",".","m","d","\n">>)]

\* C12: on a pair with both files where CLAUDE.md reads as the reference, or the
\* two files hold the same bytes, a pass ends InSync (success) and writes nothing;
\* a CLAUDE.md that reads as the reference is InSync whatever AGENTS.md holds.
C12_InSyncWritesNothing ==
    \A i \in 1..Len(instr_log) :
        LET e == instr_log[i]
        IN  (/\ AgentsPresent(e.pre)
             /\ ClaudePresent(e.pre)
             /\ \/ RefersToAgents(read(e.pre.claude, e.pre.agents))
                \/ read(e.pre.claude, e.pre.agents) = e.pre.agents.content) =>
                e.branch = "InSync" /\ e.ok /\ e.post = e.pre

C12_Witness ==
    \E i \in 1..Len(instr_log) :
        /\ instr_log[i].pre = [agents |-> File(<<"A","\n","B">>),
                               claude |-> File(<<" "," ","S","E","E"," ","A","G","E","N","T","S",".","M","D">>)]
        /\ instr_log[i].branch = "InSync"
        /\ instr_log[i].post = instr_log[i].pre

\* the text is the reference and nothing else, in any case, after trimming
IsReferenceOnly(text) ==
    lower(strip(text)) \in { <<"s","e","e"," ","@","a","g","e","n","t","s",".","m","d">>, <<"s","e","e"," ","a","g","e","n","t","s",".","m","d">> }

\* C13 as stated: a CLAUDE.md that a pass takes for the reference (InSync although
\* its bytes differ from those of AGENTS.md) holds the reference and nothing else.
C13_StubExactness ==
    \A i \in 1..Len(instr_log) :
        LET e == instr_log[i]
        IN  (/\ e.branch = "InSync"
             /\ e.pre.claude.kind = "file"
             /\ e.pre.claude.content # e.pre.agents.content) =>
                IsReferenceOnly(e.pre.claude.content)

\* C14: a live pass that reaches the reference write leaves a CLAUDE.md that is a
\* symbolic link to AGENTS.md as that link, and AGENTS.md without the reference
\* written through it; any other CLAUDE.md ends as the file "See @AGENTS.md\n".
C14_ReferenceWrite ==
    \A i \in 1..Len(instr_log) :
        LET e == instr_log[i]
        IN  (~e.dry /\ e.branch \in {"Bootstrapped", "Migrated", "ReferenceCreated"}) =>
                IF e.pre.claude.kind = "link"
                THEN /\ e.post.claude = Link
                     /\ e.post.agents # File(<<"S","e","e"," ","@","A","G","E","N","T","S",".","m","d","\n">>)
                     /\ e.post.agents = File(template)
                ELSE e.post.claude = File(<<"S","e","e"," ","@","A","G","E","N","T","S",".","m","d","\n">>)

C14_Witness ==
    \E i \in 1..Len(instr_log) :
        /\ ~instr_log[i].dry
        /\ instr_log[i].pre = [agents |-> Absent, claude |-> Link]
        /\ instr_log[i].branch = "Bootstrapped"
        /\ instr_log[i].post = [agents |-> File(template), claude |-> Link]

----------------------------------------------------------------------------
(* Whole runs of main, under SpecRun                                       *)

Exited == rpc = "exited"

SubSyncers == <<"instructions", "rules", "mcp", "commands", "settings">>

\* the sub-syncers that returned, in the order they ran
StepsRun == [i \in 1..Len(results) |-> results[i].step]

InstructionsDiverged ==
    \E i \in 1..Len(results) :
        results[i].step = "instructions" /\ results[i].branch = "Diverged"

\* C15 as stated: a run on a valid project directory exits with a non-zero status
\* exactly when its instruction reconcile ended Diverged.
C15_ExitStatus ==
    (Exited /\ project_dir = "dir") => ((exit_status # 0) <=> InstructionsDiverged)

\* C16 as stated: a run in which a write failed still runs all five sub-syncers.
C16_WriteFailureIsolated ==
    (Exited /\ raised = "PermissionError") => StepsRun = SubSyncers

\* C17 as stated: whatever .mcp.json, ~/.claude.json and .claude/settings.json
\* hold, a run that reached the MCP step completes the MCP step and the settings
\* step, and both return success.
C17_ConfigNeverFatal ==
    (Exited /\ Len(results) >= 2) =>
        /\ StepsRun = SubSyncers
        /\ results[3].ok
        /\ results[5].ok

\* C19: a run with --dry-run, of sync_all or of init_project, leaves every file
\* and directory of the project as it was when the run started.
C19_DryRunChangesNothing ==
    args.dry_run => FS = before

C19_Witness ==
    /\ Exited
    /\ exit_status = 0
    /\ args = [init |-> TRUE, dry_run |-> TRUE]
    /\ before.agents = Absent /\ before.claude = Absent
    /\ before.legacy = File(<<"r","u","l","e"," ","t","e","x","t">>)
    /\ before.gitignore = Absent
    /\ StepsRun = SubSyncers
    /\ FS = before

\* C20: on a project directory that is missing or is not a directory, main exits
\* with status 1 before it makes the ConfigSyncer: no sub-syncer runs and nothing
\* is created or changed.
C20_InvalidProjectDir ==
    (project_dir # "dir" /\ rpc # "main") =>
        /\ Exited
        /\ exit_status = 1
        /\ ~syncer
        /\ results = <<>>
        /\ warned = {}
        /\ FS = before

C20_Witness ==
    /\ project_dir = "missing"
    /\ Exited
    /\ exit_status = 1
    /\ ~syncer

----------------------------------------------------------------------------
(* The two syncers interleaved, under SpecPar                              *)

BothDone == ipc = "done" /\ pc = "done"

\* C18: however the file operations of the instruction reconcile and of the rules
\* migration interleave, when both are done AGENTS.md and CLAUDE.md and the
\* instruction outcome are those of the reconcile run alone on the files as they
\* were, and .cursorrules, .cursor/rules and .cursor/backups are those of the rules
\* sync run alone on the files as they were (with the backup named after some
\* moment of the run); nothing else changed.
C18_NonInterference ==
    BothDone =>
        LET alone == sync([agents |-> before.agents, claude |-> before.claude],
                          args.dry_run)
        IN  /\ agents_md = alone.pair.agents
            /\ claude_md = alone.pair.claude
            /\ {results[i] : i \in 1..Len(results)} =
                  {Step("instructions", alone.ok, alone.branch), Step("rules", TRUE, "")}
            /\ \E t \in 0..now :
                  FS = [rules_sync(before, args.dry_run, t, {}).fs
                           EXCEPT !.agents = alone.pair.agents,
                                  !.claude = alone.pair.claude]

\* the rules sync finished first, after the reconcile had written AGENTS.md and
\* before it wrote CLAUDE.md
C18_Witness ==
    /\ ipc = "reference"
    /\ pc = "done"
    /\ ~args.dry_run
    /\ before.agents = Absent
    /\ before.claude = File(<<"C","\n","D">>)
    /\ agents_md = File(<<"C","\n","D">>)
    /\ claude_md = File(<<"C","\n","D">>)
    /\ before.legacy = File(<<"r","u","l","e"," ","t","e","x","t">>)
    /\ project_rules.kind = "file"
    /\ results = <<Step("rules", TRUE, "")>>

----------------------------------------------------------------------------
(* The shape of the serialized text and the parsing of metadata lines,     *)
(* under SpecMdc                                                           *)

\* the lines markdown_to_mdc is to write before the body of rule document d
HeadLines(d) ==
    << <<"-","-","-">> >>
    \o (IF d.description # <<>>
        THEN << <<"d","e","s","c","r","i","p","t","i","o","n",":"," ","\"">> \o d.description \o <<"\"">> >> ELSE <<>>)
    \o (IF d.globs # <<>> THEN << <<"g","l","o","b","s",":"," ">> \o d.globs >> ELSE <<>>)
    \o << IF d.always_apply THEN <<"a","l","w","a","y","s","A","p","p","l","y",":"," ","t","r","u","e">> ELSE <<"a","l","w","a","y","s","A","p","p","l","y",":"," ","f","a","l","s","e">> >>
    \o << <<"-","-","-">>, <<>> >>

\* C21: the serialized text ends with the body verbatim, and what precedes the
\* body is, line by line: the fence; the description line (quoted value) exactly
\* when the description is not empty; the globs line exactly when globs is not
\* empty; alwaysApply as lowercase true or false; the fence; one empty line.
C21_OutputShape ==
    mpc \in {"serialized", "parsed"} =>
        LET n == Len(mdc) - Len(doc.body)
        IN  /\ n >= 0
            /\ SubSeq(mdc, n + 1, Len(mdc)) = doc.body
            /\ split(SubSeq(mdc, 1, n), "\n") = HeadLines(doc) \o << <<>> >>

C21_Witness ==
    /\ mpc = "serialized"
    /\ doc = [body |-> <<"a","\n","-","-","-">>, description |-> <<"d">>, globs |-> <<"*",".","t","s">>,
              always_apply |-> FALSE]
    /\ mdc = <<"-","-","-","\n","d","e","s","c","r","i","p","t","i","o","n",":"," ","\"","d","\"","\n","g","l","o","b","s",":"," ","*",".","t","s","\n","a","l","w","a","y","s","A","p","p","l","y",":"," ","f","a","l","s","e","\n","-","-","-","\n","\n","a","\n","-","-","-">>

\* the text mdc_to_markdown was given
ParsedText == IF mpc = "parsed" THEN mdc ELSE doc.body

\* the lines between the opening fence and the next fence
FencedLines(text) == split(strip(slice(text, 3, find(text, FENCE, 3))), "\n")

HasColon(line) == \E i \in 1..Len(line) : line[i] = ":"

\* s without one layer of matching quotes, when it has one
OneLayer(s) ==
    IF Len(s) >= 2 /\ s[1] = s[Len(s)] /\ s[1] \in {"\"", "'"}
    THEN SubSeq(s, 2, Len(s) - 1)
    ELSE s

\* key and value of a metadata line as C22 reads it
LineKey(line) ==
    OneLayer(strip(slice(line, 0, find(line, <<":">>, 0))))
LineValue(line) ==
    LET v == OneLayer(strip(slice(line, find(line, <<":">>, 0) + 1, Len(line))))
    IN  IF lower(v) = <<"t","r","u","e">> THEN BoolValue(TRUE)
        ELSE IF lower(v) = <<"f","a","l","s","e">> THEN BoolValue(FALSE)
        ELSE StrValue(v)

\* C22 as stated: for a text with an opening and a closing fence, the metadata
\* holds one entry for each line of the fenced region that has a colon (the last
\* such line of a key counts): key and value are the parts before and after the
\* first colon, trimmed of whitespace and of exactly one layer of matching quotes,
\* the value a bool when it reads true or false in any case; lines without a colon
\* add nothing.
C22_MetadataParsing ==
    (mpc \in {"parsed", "rawparsed"} /\ ~Unfenced(ParsedText) /\ ~Unclosed(ParsedText)) =>
        LET ls == FencedLines(ParsedText)
            with_colon == {i \in 1..Len(ls) : HasColon(ls[i])}
        IN  /\ DOMAIN parsed.metadata = {LineKey(ls[i]) : i \in with_colon}
            /\ \A i \in with_colon :
                  (\A j \in with_colon : j > i => LineKey(ls[j]) # LineKey(ls[i])) =>
                      parsed.metadata[LineKey(ls[i])] = LineValue(ls[i])

----------------------------------------------------------------------------
(* Order of a run, under SpecRun; AGENTS.md over passes, under SpecInstr   *)

\* C23 as stated: every run on a valid project directory runs the five
\* sub-syncers once each, in the order instructions, rules, MCP, commands,
\* settings, whatever the earlier ones returned, and succeeds exactly when all
\* five returned success.
C23_OrderAndFolding ==
    (Exited /\ project_dir = "dir") =>
        /\ StepsRun = SubSyncers
        /\ (exit_status = 0) <=> (\A i \in 1..Len(results) : results[i].ok)

\* C24: in any sequence of passes, live or dry, a pass that starts with AGENTS.md
\* there ends with AGENTS.md unchanged; a pass that changes AGENTS.md started
\* without it and leaves the template or the bytes CLAUDE.md held.
C24_CanonicalNeverOverwritten ==
    \A i \in 1..Len(instr_log) :
        LET e == instr_log[i]
        IN  /\ e.pre.agents.kind = "file" => e.post.agents = e.pre.agents
            /\ e.post.agents # e.pre.agents =>
                  /\ e.pre.agents = Absent
                  /\ ~e.dry
                  /\ \/ e.branch = "Bootstrapped" /\ e.post.agents = File(template)
                     \/ /\ e.branch = "Migrated"
                        /\ e.post.agents = File(e.pre.claude.content)

C24_Witness ==
    /\ Len(instr_log) = 2
    /\ ~instr_log[1].dry
    /\ instr_log[1].pre = [agents |-> Absent, claude |-> File(<<"C","\n","D">>)]
    /\ instr_log[1].post.agents = File(<<"C","\n","D">>)
    /\ ~instr_log[2].dry
    /\ instr_log[2].pre.agents = File(<<"C","\n","D">>)
    /\ instr_log[2].post.agents = File(<<"C","\n","D">>)

\* C25: a live pass on a pair without AGENTS.md whose CLAUDE.md holds only the
\* reference takes the Migrated branch, leaves AGENTS.md with the bytes of that
\* reference and CLAUDE.md as "See @AGENTS.md\n"; every later pass is InSync and
\* leaves both files as that pass left them.
C25_ReferenceMigrated ==
    \A i \in 1..Len(instr_log) :
        LET e == instr_log[i]
        IN  (/\ ~e.dry
             /\ e.pre.agents = Absent
             /\ e.pre.claude.kind = "file"
             /\ IsReferenceOnly(e.pre.claude.content)) =>
                /\ e.branch = "Migrated"
                /\ e.post.agents = File(e.pre.claude.content)
                /\ IsReferenceOnly(e.post.agents.content)
                /\ e.post.claude = File(<<"S","e","e"," ","@","A","G","E","N","T","S",".","m","d","\n">>)
                /\ \A j \in (i + 1)..Len(instr_log) :
                      /\ instr_log[j].branch = "InSync"
                      /\ instr_log[j].ok
                      /\ instr_log[j].pre = e.post
                      /\ instr_log[j].post = e.post

C25_Witness ==
    /\ Len(instr_log) = 2
    /\ ~instr_log[1].dry
    /\ instr_log[1].pre = [agents |-> Absent, claude |-> File(<<" "," ","S","E","E"," ","A","G","E","N","T","S",".","M","D">>)]
    /\ instr_log[1].branch = "Migrated"
    /\ instr_log[1].post = [agents |-> File(<<" "," ","S","E","E"," ","A","G","E","N","T","S",".","M","D">>),
                            claude |-> File(<<"S","e","e"," ","@","A","G","E","N","T","S",".","m","d","\n">>)]
    /\ ~instr_log[2].dry
    /\ instr_log[2].branch = "InSync"
    /\ agents_md = File(<<" "," ","S","E","E"," ","A","G","E","N","T","S",".","M","D">>)

====
